---- MODULE Spec2Model ----
(***************************************************************************)
(* Model of the jump-detection engine of the FeetTracker component         *)
(* (src/components/feet-tracker.tsx).  The file holds three variants of    *)
(* the component; variant 1 (lines 1-558) keeps four stats and throttles   *)
(* at 60 ms, variant 2 (lines 560-1033) adds the best-of stats, written as *)
(* nested state-updater callbacks, and throttles at 16 ms.  The page that  *)
(* buffers chart data (src/unnamed/part_002), the camera acquisition       *)
(* (setupCamera, getBestCameraStream) and the VideoRecorder component      *)
(* (src/unnamed/part_001) are modelled on their own, each with its own     *)
(* next-state relation.                                                    *)
(*                                                                         *)
(* Units: timestamps are whole milliseconds; a flight time is kept in      *)
(* thousandths of a second, so (timestamp - start) / 1000 > 0.1 reads      *)
(* (timestamp - start) > MinFlightTime.  Confidence scores are kept in     *)
(* hundredths, so 0.6 reads 60.                                            *)
(***************************************************************************)
EXTENDS Integers, Sequences, FiniteSets, TLC

VARIABLES
  variant,            \* which FeetTracker variant is mounted (fixed)
  isRecording,        \* the isRecording prop as last seen by the start/stop effect
  now,                \* timestamp of the latest animation frame
  requestRef,         \* requestRef.current: Null, or <<l>> for the latest frame request of loop l
  loops,              \* the detection loops started so far: where each one stands
  processingRef,      \* processingRef.current (variant 1)
  capturedProcessing, \* the isProcessing value each loop's detectPose closure holds (variant 3)
  lastTimeRef,        \* lastTimeRef.current
  groundLevelRef,     \* groundLevelRef.current: Null or <<g>>
  inAirRef,           \* inAirRef.current
  jumpStartTimeRef,   \* jumpStartTimeRef.current: Null or <<t>>
  feetPositionsRef,   \* feetPositionsRef.current
  hooks,              \* committed React state of the component
  pending,            \* React's queue of state updates not yet rendered
  emitted,            \* last (leftFoot, rightFoot) given to onFeetHeightUpdate: Null or <<<<l, r>>>>
  feetData,           \* the page's chart state (src/app/page.tsx), as its next render shows it
  frames,             \* history: frames accepted by the throttle since mount
  sessions,           \* history: recordings started since mount
  nticks,             \* history: ticks that reached the buffer in this session
  hist,               \* history: combined heights of this session, in order
  ops,                \* history: the resets and the accepted jumps since mount, in order
  epStart,            \* history: timestamp of the first tick of the current airborne run
  tickTime,           \* history: timestamp of the latest tick of this session: Null or <<t>>
  startedFrom,        \* history: what the latest session start found: Null or <<record>>
  emits,              \* history: the pairs given to onFeetHeightUpdate since the latest start
  emitSeen,           \* history: the tracking data as it stood at the latest onFeetHeightUpdate call
  lastPose,           \* history: the pose of the latest accepted frame: Null or <<pose>>
  profile,            \* which family of sample streams drives the run (fixed)
  bufferedPage,       \* the page variant that buffers chart data (src/unnamed/part_002)
  cameraSetup,        \* the camera acquisition of the tracker (setupCamera, getBestCameraStream)
  videoRecorder       \* the VideoRecorder component (src/unnamed/part_001)

vars == <<variant, isRecording, now, requestRef, loops, processingRef, capturedProcessing, lastTimeRef,
          groundLevelRef, inAirRef, jumpStartTimeRef, feetPositionsRef, hooks,
          pending, emitted, feetData, frames, sessions, nticks, hist, ops, epStart,
          tickTime, startedFrom, emits, emitSeen, lastPose, profile,
          bufferedPage, cameraSetup, videoRecorder>>

refs == <<groundLevelRef, inAirRef, jumpStartTimeRef, feetPositionsRef>>
history == <<nticks, hist, ops, epStart, tickTime, startedFrom, emits, emitSeen>>
\* what no step of the detection loop changes: the variant, the profile and
\* the components modelled on their own
fixed == <<variant, profile, bufferedPage, cameraSetup, videoRecorder>>
\* the tracker and the per-sample page, left alone by the other components
tracker == <<variant, isRecording, now, requestRef, loops, processingRef, capturedProcessing, lastTimeRef,
             groundLevelRef, inAirRef, jumpStartTimeRef, feetPositionsRef, hooks,
             pending, emitted, feetData, frames, sessions, nticks, hist, ops, epStart,
             tickTime, startedFrom, emits, emitSeen, lastPose, profile>>
liveness == <<processingRef, capturedProcessing>>

(***************************************************************************)
(* Bounds of the model                                                     *)
(***************************************************************************)
MaxFrames == 3
MaxSteadyFrames == 6
MaxLongFrames == 32
MaxProbeFrames == 1
MaxOverlapFrames == 3
MaxCadenceFrames == 3
MaxLowConfFrames == 3
MaxFaultFrames == 3
MaxLiveFrames == 3
MaxChartFrames == 103
ChartSessionFrames == 34
MaxSessions == 2
MaxPending == 8
MaxPageStarts == 2
MaxPageSamples == 4
MaxPageUpdates == 2
MaxCameraSetups == 3
MaxRecordings == 3
MaxChunks == 4

(***************************************************************************)
(* Program constants                                                       *)
(***************************************************************************)
FrameHeight == 480
BufferCapacity == 30
PeakLookback == 15
GroundTolerance == 100
JumpThreshold == 20
MinFlightTime == 100
LowConfidenceSum == 60

Null == <<>>
Some(v) == <<v>>
Val(o) == o[1]

Variants == {1, 2}

\* with the third variant (lines 1035-1533), of which only the detection
\* loop's liveness check and throttle are modelled
AllVariants == {1, 2, 3}

ThrottleMs(v) == IF v = 1 THEN 60 ELSE IF v = 2 THEN 16 ELSE 30

Min2(a, b) == IF a < b THEN a ELSE b
Max2(a, b) == IF a > b THEN a ELSE b

RECURSIVE SeqMax(_)
SeqMax(s) == IF Len(s) = 1 THEN s[1] ELSE Max2(s[1], SeqMax(Tail(s)))

(***************************************************************************)
(* Inputs: a pose is the pair of ankle keypoints the detector returns.     *)
(***************************************************************************)
Pose(la, hl, sl, ra, hr, sr) ==
  [la |-> la, ly |-> FrameHeight - hl, ls |-> sl,
   ra |-> ra, ry |-> FrameHeight - hr, rs |-> sr]

(***************************************************************************)
(* Sample streams.  "free": every pose of Poses at gaps below and above    *)
(* the throttle and up to the minimum flight time; "steady": both feet     *)
(* level, one frame every 110 ms; "long": a periodic stream, long enough   *)
(* to overflow the buffer; "probe": every combination of ankle heights,    *)
(* confidences and presence on single frames; "overlap": session stops and *)
(* starts that fall while a pose estimation is pending; "cadence": gaps    *)
(* below, at and above both throttles; "lowconf": low-confidence samples   *)
(* against ground levels below 100; "faults": pose estimations that throw  *)
(* or find nobody, and a canvas without a 2d context; "live": one level     *)
(* pose, for all three variants; "chart": a stream long enough to overflow  *)
(* the page's chart data, toggled every ChartSessionFrames frames.          *)
(***************************************************************************)
Level(h) == Pose(TRUE, h, 90, TRUE, h, 90)

Poses ==
  { Level(h) : h \in {100, 130, 150} }
    \cup { Pose(TRUE, 150, 90, TRUE, 100, 90),
           Pose(TRUE, 130, 20, TRUE, 130, 20),
           Pose(FALSE, 0, 0, TRUE, 130, 90),
           Pose(TRUE, 130, 90, FALSE, 0, 0) }

SteadyPoses == { Level(h) : h \in {100, 130, 150} }

OverlapPoses == { Level(h) : h \in {100, 130} }

CadencePoses == { Level(100) }

LowConfPoses == { Level(50), Level(130), Pose(TRUE, 130, 20, TRUE, 130, 20) }

ProbeScores == {0, 20, 30, 40, 90}

ProbePoses ==
  { Pose(la, hl, sl, ra, hr, sr) :
      la \in BOOLEAN, ra \in {TRUE}, hl \in {100, 130}, hr \in {130},
      sl \in ProbeScores, sr \in ProbeScores }

\* the periodic streams: the i-th sample of stream k
LongPatterns ==
  << <<100, 101, 102, 103, 104, 105, 106>>,
     <<100, 130, 130, 100, 100, 100, 100, 100, 100, 100, 100, 100, 100>>,
     <<100, 150, 130, 130, 130, 130, 130, 130, 130, 130, 130, 130, 130, 130, 130, 130, 130, 100>> >>

\* the chart stream: level feet, a different height on neighbouring frames
ChartPose(i) == Level(100 + (i % 7))

LongPose(k, i) == Level(LongPatterns[k][(i % Len(LongPatterns[k])) + 1])

Profiles == {"free", "steady", "probe", "overlap", "cadence", "lowconf", "faults", "live", "chart"} \cup { <<"long", k>> : k \in 1..Len(LongPatterns) }

PosesOf(pf, i) ==
  CASE pf = "free" -> Poses
    [] pf = "steady" -> SteadyPoses
    [] pf = "probe" -> ProbePoses
    [] pf = "overlap" -> OverlapPoses
    [] pf = "cadence" -> CadencePoses
    [] pf = "lowconf" -> LowConfPoses
    [] pf = "faults" -> CadencePoses
    [] pf = "live" -> CadencePoses
    [] pf = "chart" -> { ChartPose(i) }
    [] OTHER -> { LongPose(pf[2], i) }

Intervals(pf) ==
  CASE pf = "free" -> {50, 100}
    [] pf = "cadence" -> {10, 16, 60}
    [] pf = "faults" -> {10, 110}
    [] OTHER -> {110}

\* what await detector.estimatePoses gives: a pose, an exception, or no pose
Found(pose) == [kind |-> "pose", pose |-> pose]
Thrown == [kind |-> "error"]
NoPose == [kind |-> "none"]

ResultsOf(pf, i) ==
  { Found(p) : p \in PosesOf(pf, i) } \cup (IF pf = "faults" THEN {Thrown, NoPose} ELSE {})

\* whether canvas.getContext("2d") gives a context
ContextsOf(pf) == IF pf = "faults" THEN BOOLEAN ELSE {TRUE}

FrameLimit(pf) ==
  CASE pf = "free" -> MaxFrames
    [] pf = "steady" -> MaxSteadyFrames
    [] pf = "probe" -> MaxProbeFrames
    [] pf = "overlap" -> MaxOverlapFrames
    [] pf = "cadence" -> MaxCadenceFrames
    [] pf = "lowconf" -> MaxLowConfFrames
    [] pf = "faults" -> MaxFaultFrames
    [] pf = "live" -> MaxLiveFrames
    [] pf = "chart" -> MaxChartFrames
    [] OTHER -> MaxLongFrames

(***************************************************************************)
(* Foot-height extraction (processPose, first half)                        *)
(***************************************************************************)
\* faulty variant of AnklesPresent: one ankle is enough
AnklesPresentEither(pose) == pose.la \/ pose.ra

\* if (!leftAnkle || !rightAnkle) return, negated
AnklesPresent(pose) == pose.la /\ pose.ra

\* leftAnkle.score && rightAnkle.score && rightAnkle.score + leftAnkle.score < 0.6
\* (a score of 0 is falsy, so the guard is false for it)
LowConfidence(pose) ==
  pose.ls # 0 /\ pose.rs # 0 /\ pose.rs + pose.ls < LowConfidenceSum

\* <<leftFootHeight, rightFootHeight>>
FootHeights(pose, height) ==
  IF LowConfidence(pose) THEN <<0, 0>>
  ELSE <<height - pose.ly, height - pose.ry>>

\* const avgFootHeight = Math.min(leftFootHeight, rightFootHeight)
AvgFootHeight(fh) == Min2(fh[1], fh[2])

\* faulty variant of PushPosition: on overflow the newest entry is dropped
PushPositionDropsNewest(positions, h) ==
  LET pushed == Append(positions, h)
  IN IF Len(pushed) > BufferCapacity THEN SubSeq(pushed, 1, BufferCapacity) ELSE pushed

\* feetPositionsRef.current.push(h); if (length > 30) shift()
PushPosition(positions, h) ==
  LET pushed == Append(positions, h)
  IN IF Len(pushed) > BufferCapacity THEN Tail(pushed) ELSE pushed

\* faulty variants of GroundUpdate: one that forgets the "lower" test, one
\* whose tolerance window is closed at ground - 100
GroundUpdateAnyHeight(ground, h) ==
  IF ground = Null THEN Some(h)
  ELSE IF h > Val(ground) - GroundTolerance THEN Some(h)
  ELSE ground

GroundUpdateClosedWindow(ground, h) ==
  IF ground = Null THEN Some(h)
  ELSE IF h < Val(ground) /\ h >= Val(ground) - GroundTolerance THEN Some(h)
  ELSE ground

\* faulty variant of GroundUpdate: a zero sample never moves a set ground level
GroundUpdateIgnoresZero(ground, h) ==
  IF ground = Null THEN Some(h)
  ELSE IF h > 0 /\ h < Val(ground) /\ h > Val(ground) - GroundTolerance THEN Some(h)
  ELSE ground

\* faulty variant of GroundUpdate: an absent ground level starts at 0
GroundUpdateStartsAtZero(ground, h) ==
  IF ground = Null THEN Some(0)
  ELSE IF h < Val(ground) /\ h > Val(ground) - GroundTolerance THEN Some(h)
  ELSE ground

\* the ground level after a sample of combined height h
GroundUpdate(ground, h) ==
  IF ground = Null THEN Some(h)
  ELSE IF h < Val(ground) /\ h > Val(ground) - GroundTolerance THEN Some(h)
  ELSE ground

\* faulty variant of IsInAir: airborne already at the threshold
IsInAirAtThreshold(ground, h) == ground # Null /\ h >= Val(ground) + JumpThreshold

\* const isInAir = groundLevelRef.current !== null && h > groundLevelRef.current + jumpThreshold
IsInAir(ground, h) == ground # Null /\ h > Val(ground) + JumpThreshold

\* faulty variant of JumpFlightTime: the start is not subtracted
JumpFlightTimeFromZero(timestamp, start) == timestamp

\* const jumpFlightTime = (timestamp - jumpStartTimeRef.current) / 1000, in thousandths of a second
JumpFlightTime(timestamp, start) == timestamp - start

\* faulty variant of RecentHeights: the whole buffer is searched
RecentHeightsWholeBuffer(positions) == positions

\* feetPositionsRef.current.slice(-15)
RecentHeights(positions) ==
  IF Len(positions) <= PeakLookback THEN positions
  ELSE SubSeq(positions, Len(positions) - PeakLookback + 1, Len(positions))

\* relativeJumpHeight = groundLevel !== null ? Math.max(...recentHeights) - groundLevel : 0
RelativeJumpHeight(positions, ground) ==
  IF ground # Null THEN SeqMax(RecentHeights(positions)) - Val(ground) ELSE 0

\* faulty variants of CountsAsJump: a flight of exactly 0.1 s counts; every
\* flight counts
CountsAsJumpAlways(ft) == TRUE

CountsAsJumpAtFloor(ft) == ft >= MinFlightTime

\* if (jumpFlightTime > 0.1)
CountsAsJump(ft) == ft > MinFlightTime

\* faulty variants of Throttled: one that takes the other variant's
\* interval, one whose interval is 10 ms short
ThrottledAsOtherVariant(v, time, last) == time - last < ThrottleMs(3 - v)
ThrottledTenShort(v, time, last) == time - last < ThrottleMs(v) - 10

\* if (time - lastTimeRef.current < 60)      (16 in variant 2)
Throttled(v, time, last) == time - last < ThrottleMs(v)

(***************************************************************************)
(* React state: the committed hook values and the queue of updates.  An    *)
(* update is [hook, kind, val, val2]; React applies the queue in order at  *)
(* the next render, running each updater function then, and an update      *)
(* dispatched by an updater function joins the end of the queue.  Every    *)
(* render applies the whole queue (React batches the updates).             *)
(***************************************************************************)
InitHooks ==
  [isProcessing |-> FALSE, jumpCount |-> 0, maxHeight |-> 0, flightTime |-> 0,
   lastJumpHeight |-> 0, bestFlightTime |-> 0, bestFlightJump |-> 0,
   bestMaxHeight |-> 0, bestMaxJump |-> 0]

Update(hook, kind, val, val2) == [hook |-> hook, kind |-> kind, val |-> val, val2 |-> val2]
SetTo(hook, v) == Update(hook, "set", v, 0)

\* faulty variant of NestedJumpUpdates: the best indices take the jump count
\* from before the increment
NestedJumpUpdatesStaleIndex(ft, h, n) ==
  << SetTo("flightTime", ft),
     SetTo("lastJumpHeight", h),
     Update("maxHeight", "max", h, 0),
     Update("bestFlightTime", "best", ft, n - 1),
     Update("bestMaxHeight", "best", h, n - 1) >>

\* faulty variant of NestedJumpUpdates: the best height is not updated
NestedJumpUpdatesSkipsBestHeight(ft, h, n) ==
  << SetTo("flightTime", ft),
     SetTo("lastJumpHeight", h),
     Update("maxHeight", "max", h, 0),
     Update("bestFlightTime", "best", ft, n) >>

\* the updates one jump's updater bodies dispatch, given the jump number n
\* (variant 2: the body of the setJumpCount updater, lines 839-857)
NestedJumpUpdates(ft, h, n) ==
  << SetTo("flightTime", ft),
     SetTo("lastJumpHeight", h),
     Update("maxHeight", "max", h, 0),
     Update("bestFlightTime", "best", ft, n),
     Update("bestMaxHeight", "best", h, n) >>

\* the jump-index hook that goes with a best-value hook
IndexHook(hook) == IF hook = "bestFlightTime" THEN "bestFlightJump" ELSE "bestMaxJump"

\* faulty variant of ApplyUpdate: a best value is replaced on a tie
ApplyUpdateTieReplaces(s, u) ==
  CASE u.kind = "set" -> [s |-> [s EXCEPT ![u.hook] = u.val], nested |-> <<>>]
    [] u.kind = "inc" -> [s |-> [s EXCEPT ![u.hook] = @ + 1], nested |-> <<>>]
    [] u.kind = "max" -> [s |-> [s EXCEPT ![u.hook] = Max2(@, u.val)], nested |-> <<>>]
    [] u.kind = "best" ->
         IF u.val >= s[u.hook]
         THEN [s |-> [s EXCEPT ![u.hook] = u.val],
               nested |-> << SetTo(IndexHook(u.hook), u.val2) >>]
         ELSE [s |-> s, nested |-> <<>>]
    [] u.kind = "jump" ->
         [s |-> [s EXCEPT !.jumpCount = @ + 1],
          nested |-> NestedJumpUpdates(u.val, u.val2, s.jumpCount + 1)]

\* one update applied to the hook values s: the new values and the updates
\* its updater function dispatched
ApplyUpdate(s, u) ==
  CASE u.kind = "set" -> [s |-> [s EXCEPT ![u.hook] = u.val], nested |-> <<>>]
    [] u.kind = "inc" -> [s |-> [s EXCEPT ![u.hook] = @ + 1], nested |-> <<>>]
    [] u.kind = "max" -> [s |-> [s EXCEPT ![u.hook] = Max2(@, u.val)], nested |-> <<>>]
    [] u.kind = "best" ->
         IF u.val > s[u.hook]
         THEN [s |-> [s EXCEPT ![u.hook] = u.val],
               nested |-> << SetTo(IndexHook(u.hook), u.val2) >>]
         ELSE [s |-> s, nested |-> <<>>]
    [] u.kind = "jump" ->
         [s |-> [s EXCEPT !.jumpCount = @ + 1],
          nested |-> NestedJumpUpdates(u.val, u.val2, s.jumpCount + 1)]

\* faulty variant of ProcessQueue: a render commits before the updates its
\* updater functions dispatched are applied
RECURSIVE ProcessQueueWithoutNested(_, _)
ProcessQueueWithoutNested(s, q) ==
  IF q = <<>> THEN s
  ELSE CHOOSE out \in { ProcessQueueWithoutNested(r.s, Tail(q)) :
                          r \in { ApplyUpdate(s, Head(q)) } } : TRUE

RECURSIVE ProcessQueue(_, _)
ProcessQueue(s, q) ==
  IF q = <<>> THEN s
  ELSE CHOOSE out \in { ProcessQueue(r.s, Tail(q) \o r.nested) :
                          r \in { ApplyUpdate(s, Head(q)) } } : TRUE

\* the hook values the next render commits
Settled == ProcessQueue(hooks, pending)

\* the updates processPose dispatches for an accepted jump
\* (variant 1: lines 359-362; variant 2: lines 838-858)
JumpUpdates(v, ft, h) ==
  IF v = 1
  THEN << Update("jumpCount", "inc", 0, 0),
          SetTo("flightTime", ft),
          SetTo("lastJumpHeight", h),
          Update("maxHeight", "max", h, 0) >>
  ELSE << Update("jumpCount", "jump", ft, h) >>

\* faulty variant of ResetUpdates: jumpCount is stepped, not set
ResetUpdatesSteppingCount ==
  << Update("jumpCount", "inc", 0, 0), SetTo("maxHeight", 0),
     SetTo("flightTime", 0), SetTo("lastJumpHeight", 0) >>

\* faulty variant of ResetUpdates: the four best-of stats are set to 0 too
ResetUpdatesWithBests ==
  << SetTo("jumpCount", 0), SetTo("maxHeight", 0),
     SetTo("flightTime", 0), SetTo("lastJumpHeight", 0),
     SetTo("bestFlightTime", 0), SetTo("bestFlightJump", 0),
     SetTo("bestMaxHeight", 0), SetTo("bestMaxJump", 0) >>

\* setJumpCount(0); setMaxHeight(0); setFlightTime(0); setLastJumpHeight(0)
ResetUpdates ==
  << SetTo("jumpCount", 0), SetTo("maxHeight", 0),
     SetTo("flightTime", 0), SetTo("lastJumpHeight", 0) >>

(***************************************************************************)
(* The page (src/app/page.tsx): handleFeetHeightUpdate.  feetData is React *)
(* state written only through setFeetData, by an updater function here and *)
(* by setFeetData([]) at a recording start; the updates apply in dispatch   *)
(* order, so the variable holds the value the page's next render shows.     *)
(***************************************************************************)
ChartCapacity == 100

\* faulty variant of HandleFeetHeightUpdate: the oldest 100 points are kept
HandleFeetHeightUpdateKeepsOldest(data, leftFoot, rightFoot) ==
  LET newData == Append(data, [timestamp |-> Len(data), leftFoot |-> leftFoot, rightFoot |-> rightFoot])
  IN IF Len(newData) > ChartCapacity
     THEN SubSeq(newData, 1, ChartCapacity)
     ELSE newData

HandleFeetHeightUpdate(data, leftFoot, rightFoot) ==
  LET newData == Append(data, [timestamp |-> Len(data), leftFoot |-> leftFoot,
                               rightFoot |-> rightFoot])
  IN IF Len(newData) > ChartCapacity
     THEN SubSeq(newData, Len(newData) - ChartCapacity + 1, Len(newData))
     ELSE newData

(***************************************************************************)
(* processPose(ctx, pose, width, height, timestamp)                        *)
(***************************************************************************)
\* history records
JumpOp(ft, h) == [kind |-> "jump", flightTime |-> ft, height |-> h]
ResetOp == [kind |-> "reset", flightTime |-> 0, height |-> 0]

\* what the jump-detection branch does to inAirRef, jumpStartTimeRef and the
\* update queue, given the buffer and the ground level as already updated
JumpDetection(isInAir, positions, ground, timestamp) ==
  IF isInAir /\ ~inAirRef
  THEN /\ inAirRef' = TRUE
       /\ jumpStartTimeRef' = Some(timestamp)
       /\ UNCHANGED <<pending, ops>>
  ELSE IF ~isInAir /\ inAirRef
  THEN /\ inAirRef' = FALSE
       /\ UNCHANGED jumpStartTimeRef
       /\ IF jumpStartTimeRef # Null
             /\ CountsAsJump(JumpFlightTime(timestamp, Val(jumpStartTimeRef)))
          THEN LET ft == JumpFlightTime(timestamp, Val(jumpStartTimeRef))
                   h == RelativeJumpHeight(positions, ground)
               IN /\ pending' = pending \o JumpUpdates(variant, ft, h)
                  /\ ops' = Append(ops, JumpOp(ft, h))
          ELSE UNCHANGED <<pending, ops>>
  ELSE UNCHANGED <<inAirRef, jumpStartTimeRef, pending, ops>>

\* the tracking data a callback run from processPose can observe
Tracking ==
  [buffered |-> Len(feetPositionsRef), ground |-> groundLevelRef, inAir |-> inAirRef,
   jumpStart |-> jumpStartTimeRef, queued |-> Len(pending)]

\* faulty variant of EmitView: the chart is told before the tick's updates
EmitViewAtEntry(atEntry, atExit) == atEntry

\* onFeetHeightUpdate is called after the buffer, the ground level, the jump
\* detection and the stats updates of the tick (lines 374 and 862)
EmitView(atEntry, atExit) == atExit

ProcessPose(pose, height, timestamp) ==
  IF ~AnklesPresent(pose)
  THEN UNCHANGED <<refs, pending, emitted, feetData, history>>
  ELSE LET fh == FootHeights(pose, height)
           avgFootHeight == AvgFootHeight(fh)
           positions == PushPosition(feetPositionsRef, avgFootHeight)
           ground == GroundUpdate(groundLevelRef, avgFootHeight)
       IN /\ feetPositionsRef' = positions
          /\ groundLevelRef' = ground
          /\ JumpDetection(IsInAir(ground, avgFootHeight), positions, ground, timestamp)
          /\ emitted' = Some(fh)
          /\ feetData' = HandleFeetHeightUpdate(feetData, fh[1], fh[2])
          /\ emits' = Append(emits, fh)
          /\ emitSeen' = Some(EmitView(Tracking, Tracking'))
          /\ nticks' = nticks + 1
          /\ hist' = Append(hist, avgFootHeight)
          /\ epStart' = IF avgFootHeight > Val(ground) + JumpThreshold
                        THEN (IF epStart = Null THEN Some(timestamp) ELSE epStart)
                        ELSE Null
          /\ tickTime' = Some(timestamp)
          /\ UNCHANGED startedFrom

(***************************************************************************)
(* The component                                                           *)
(***************************************************************************)
\* a detection loop is one run of processVideo: its detectPose callback is
\* either requested for the next animation frame ("scheduled"), suspended at
\* await detector.estimatePoses for the frame it accepted at .time
\* ("awaiting", with the count of session starts and stops at that time), or
\* over ("ended"); loop l is the one session l started
LoopIds == 1..MaxSessions
Idle == [st |-> "none", time |-> 0]
Scheduled == [st |-> "scheduled", time |-> 0]
Ended == [st |-> "ended", time |-> 0]
Awaiting(time, epoch) == [st |-> "awaiting", time |-> time, epoch |-> epoch]

\* the number of times the start/stop effect has run with a changed prop
Epoch == 2 * sessions - (IF isRecording THEN 1 ELSE 0)

LiveLoops == { l \in LoopIds : loops[l].st \in {"scheduled", "awaiting"} }
InFlight == { l \in LoopIds : loops[l].st = "awaiting" }

\* if (requestRef.current) cancelAnimationFrame(requestRef.current): the
\* frame request it names is dropped if it has not fired yet
CancelRequested(ls) ==
  IF requestRef # Null /\ ls[Val(requestRef)].st = "scheduled"
  THEN [ls EXCEPT ![Val(requestRef)] = Ended]
  ELSE ls

(***************************************************************************)
(* The page variant that buffers chart data (src/unnamed/part_002).        *)
(* handleFeetHeightUpdate pushes each sample to graphBufferRef.current; an *)
(* interval that runs while isRecording appends the buffer to feetData     *)
(* once per second with setFeetData(prev => [...prev, ...buffer]) and then *)
(* empties the buffer.  React runs the updater function either at the      *)
(* setFeetData call (no update is queued on the component) or at the next  *)
(* render; in the second case it reads graphBufferRef.current as it is at  *)
(* that render.  Samples are numbered in arrival order.                    *)
(***************************************************************************)
InitBufferedPage ==
  [isRecording |-> FALSE, feetData |-> <<>>, graphBufferRef |-> <<>>, interval |-> FALSE,
   updates |-> <<>>, delivered |-> <<>>, samples |-> 0, starts |-> 0]

\* the feetData a render commits: the queued updates applied in order to
\* data, an updater function reading the buffer as it is now
RECURSIVE ApplyFeetUpdates(_, _, _)
ApplyFeetUpdates(data, q, buffer) ==
  IF q = <<>> THEN data
  ELSE ApplyFeetUpdates(IF Head(q) = "clear" THEN <<>> ELSE data \o buffer, Tail(q), buffer)

\* the effects of isRecording = true (lines 32-38 and 41-51), after the
\* render that brought it
PageStart ==
  /\ ~bufferedPage.isRecording
  /\ bufferedPage.starts < MaxPageStarts
  /\ bufferedPage' =
       [bufferedPage EXCEPT
          !.isRecording = TRUE,
          !.feetData = ApplyFeetUpdates(bufferedPage.feetData, bufferedPage.updates,
                                        bufferedPage.graphBufferRef),
          !.updates = << "clear" >>,
          !.graphBufferRef = <<>>,
          !.interval = TRUE,
          !.delivered = <<>>,
          !.starts = @ + 1]
  /\ UNCHANGED <<tracker, cameraSetup, videoRecorder>>

\* isRecording = false: the render, then the cleanup clearInterval (line 49)
PageStop ==
  /\ bufferedPage.isRecording
  /\ bufferedPage' =
       [bufferedPage EXCEPT
          !.isRecording = FALSE,
          !.feetData = ApplyFeetUpdates(bufferedPage.feetData, bufferedPage.updates,
                                        bufferedPage.graphBufferRef),
          !.updates = <<>>,
          !.interval = FALSE]
  /\ UNCHANGED <<tracker, cameraSetup, videoRecorder>>

\* handleFeetHeightUpdate (lines 54-64), called by the tracker for a tick
\* of the recording
PageDeliver ==
  /\ bufferedPage.isRecording
  /\ bufferedPage.samples < MaxPageSamples
  /\ bufferedPage' =
       [bufferedPage EXCEPT
          !.graphBufferRef = Append(@, bufferedPage.samples + 1),
          !.delivered = Append(@, bufferedPage.samples + 1),
          !.samples = @ + 1]
  /\ UNCHANGED <<tracker, cameraSetup, videoRecorder>>

\* the interval callback (lines 43-48)
PageFlush ==
  /\ bufferedPage.interval
  /\ bufferedPage.graphBufferRef # <<>>
  /\ Len(bufferedPage.updates) < MaxPageUpdates
  /\ \/ /\ bufferedPage.updates = <<>>
        /\ bufferedPage' =
             [bufferedPage EXCEPT
                !.feetData = @ \o bufferedPage.graphBufferRef,
                !.graphBufferRef = <<>>]
     \/ bufferedPage' =
          [bufferedPage EXCEPT
             !.updates = Append(@, "flush"),
             !.graphBufferRef = <<>>]
  /\ UNCHANGED <<tracker, cameraSetup, videoRecorder>>

\* a render of the page: the queued updates are applied and committed
PageRender ==
  /\ bufferedPage.updates # <<>>
  /\ bufferedPage' =
       [bufferedPage EXCEPT
          !.feetData = ApplyFeetUpdates(bufferedPage.feetData, bufferedPage.updates,
                                        bufferedPage.graphBufferRef),
          !.updates = <<>>]
  /\ UNCHANGED <<tracker, cameraSetup, videoRecorder>>

NextBufferedPage == PageStart \/ PageStop \/ PageDeliver \/ PageFlush \/ PageRender

(***************************************************************************)
(* Camera acquisition of the tracker: setupCamera (feet-tracker.tsx lines  *)
(* 46-97) and getBestCameraStream (src/components/camera-stream.tsx, and   *)
(* the older src/unnamed/part_000).  getBestCameraStream catches every     *)
(* error and returns null, so the await in setupCamera resolves with a     *)
(* stream or with null and never throws; the catch block of setupCamera    *)
(* (lines 83-96) has no step here because nothing in its try block throws. *)
(* cameraLoading and error are React state, held as the next render shows  *)
(* them.  Streams are numbered by the setupCamera call that obtained them.  *)
(***************************************************************************)
NoStream == 0

InitCameraSetup ==
  [cameraLoading |-> TRUE, error |-> Null, streamRef |-> NoStream, srcObject |-> NoStream,
   calls |-> <<>>, metadataPending |-> FALSE, plays |-> 0, failed |-> FALSE]

\* setupCamera up to its await (lines 47-59), run at mount (lines 137-139)
\* and at every change of facingMode (lines 158-161)
CameraSetup ==
  /\ Len(cameraSetup.calls) < MaxCameraSetups
  /\ cameraSetup' =
       [cameraSetup EXCEPT
          !.cameraLoading = TRUE,
          !.error = Null,
          !.calls = Append(@, "acquiring"),
          !.failed = FALSE]
  /\ UNCHANGED <<tracker, bufferedPage, videoRecorder>>

\* getBestCameraStream resolves for call k, with a stream or with null;
\* setupCamera goes on after the await (lines 62-81)
StreamAcquired(k, obtained) ==
  /\ k \in 1..Len(cameraSetup.calls)
  /\ cameraSetup.calls[k] = "acquiring"
  /\ LET stream == IF obtained THEN k ELSE NoStream
     IN cameraSetup' =
          [cameraSetup EXCEPT
             !.calls[k] = "done",
             !.streamRef = stream,
             !.srcObject = stream,
             !.metadataPending = obtained,
             !.failed = ~obtained]
  /\ UNCHANGED <<tracker, bufferedPage, videoRecorder>>

CameraAcquired == \E k \in 1..MaxCameraSetups, obtained \in BOOLEAN : StreamAcquired(k, obtained)

\* the video element has the metadata of its srcObject: onloadedmetadata
\* calls play() (lines 69-72)
MetadataLoaded ==
  /\ cameraSetup.metadataPending
  /\ cameraSetup.srcObject # NoStream
  /\ cameraSetup' = [cameraSetup EXCEPT !.metadataPending = FALSE, !.plays = @ + 1]
  /\ UNCHANGED <<tracker, bufferedPage, videoRecorder>>

\* the promise of play() settles: then (lines 73-76) or catch (lines 77-80)
PlaySettled(played) ==
  /\ cameraSetup.plays > 0
  /\ cameraSetup' =
       IF played
       THEN [cameraSetup EXCEPT !.plays = @ - 1, !.cameraLoading = FALSE]
       ELSE [cameraSetup EXCEPT !.plays = @ - 1, !.error = Some("Could not play video")]
  /\ UNCHANGED <<tracker, bufferedPage, videoRecorder>>

PlayDone == \E played \in BOOLEAN : PlaySettled(played)

NextCameraSetup == CameraSetup \/ CameraAcquired \/ MetadataLoaded \/ PlayDone

(***************************************************************************)
(* The VideoRecorder component (src/unnamed/part_001), with the camera     *)
(* attached and no error.  recordedChunks and videoUrl are React state,    *)
(* held as the next render shows them.  startRecording (lines 109-148) is  *)
(* called by the effect of the render in which isRecording became true;    *)
(* the onstop handler it installs reads the recordedChunks of that render  *)
(* (line 133), kept here as `captured`.  A chunk is <<r, i>>: the i-th     *)
(* non-empty chunk that arrived for recording r.  Once videoUrl is set the *)
(* live <video ref={videoRef}> is replaced by the playback element (lines  *)
(* 189-193), so the effect's guard on videoRef.current?.srcObject (line    *)
(* 100) lets no later recording start.                                     *)
(***************************************************************************)
Recordings == 1..MaxRecordings

NoRecorder == [state |-> "none", captured |-> <<>>, arrived |-> <<>>]

InitVideoRecorder ==
  [isRecording |-> FALSE, recordedChunks |-> <<>>, videoUrl |-> Null,
   mediaRecorderRef |-> 0, recorders |-> [r \in Recordings |-> NoRecorder], chunks |-> 0]

\* the effect with isRecording true (lines 99-107): startRecording
RecorderStart ==
  /\ ~videoRecorder.isRecording
  /\ videoRecorder.videoUrl = Null
  /\ videoRecorder.mediaRecorderRef < MaxRecordings
  /\ LET r == videoRecorder.mediaRecorderRef + 1
     IN videoRecorder' =
          [videoRecorder EXCEPT
             !.isRecording = TRUE,
             !.recordedChunks = <<>>,
             !.videoUrl = Null,
             !.mediaRecorderRef = r,
             !.recorders[r] = [state |-> "recording",
                               captured |-> videoRecorder.recordedChunks,
                               arrived |-> <<>>]]
  /\ UNCHANGED <<tracker, bufferedPage, cameraSetup>>

\* ondataavailable of recorder r (lines 126-130) with a chunk of the given
\* size: the once-per-second chunk, or the last one after stop()
ChunkArrives(r, size, last) ==
  /\ videoRecorder.recorders[r].state = (IF last THEN "stopping" ELSE "recording")
  /\ videoRecorder.chunks < MaxChunks
  /\ LET chunk == <<r, Len(videoRecorder.recorders[r].arrived) + 1>>
         state == IF last THEN "flushed" ELSE "recording"
     IN videoRecorder' =
          IF size > 0
          THEN [videoRecorder EXCEPT
                  !.recordedChunks = Append(@, chunk),
                  !.recorders[r].arrived = Append(@, chunk),
                  !.recorders[r].state = state,
                  !.chunks = @ + 1]
          ELSE [videoRecorder EXCEPT !.recorders[r].state = state, !.chunks = @ + 1]
  /\ UNCHANGED <<tracker, bufferedPage, cameraSetup>>

RecorderData ==
  \E r \in Recordings, size \in {0, 1}, last \in BOOLEAN : ChunkArrives(r, size, last)

\* the effect with isRecording false (lines 104-106): stopRecording
RecorderStop ==
  /\ videoRecorder.isRecording
  /\ videoRecorder.mediaRecorderRef # 0
  /\ videoRecorder.recorders[videoRecorder.mediaRecorderRef].state = "recording"
  /\ videoRecorder' =
       [videoRecorder EXCEPT
          !.isRecording = FALSE,
          !.recorders[videoRecorder.mediaRecorderRef].state = "stopping"]
  /\ UNCHANGED <<tracker, bufferedPage, cameraSetup>>

\* the chunks the onstop handler builds the blob from (lines 133-136)
UrlChunks(recorder) == recorder.captured

\* onstop of recorder r (lines 132-140)
RecorderOnStop ==
  \E r \in Recordings :
    /\ videoRecorder.recorders[r].state = "flushed"
    /\ videoRecorder' =
         IF Len(UrlChunks(videoRecorder.recorders[r])) > 0
         THEN [videoRecorder EXCEPT
                 !.recorders[r].state = "stopped",
                 !.videoUrl = Some(UrlChunks(videoRecorder.recorders[r]))]
         ELSE [videoRecorder EXCEPT !.recorders[r].state = "stopped"]
    /\ UNCHANGED <<tracker, bufferedPage, cameraSetup>>

NextVideoRecorder == RecorderStart \/ RecorderData \/ RecorderStop \/ RecorderOnStop


InitState(pf) ==
  /\ profile = pf
  /\ isRecording = FALSE
  /\ now = 0
  /\ requestRef = Null
  /\ loops = [l \in LoopIds |-> Idle]
  /\ processingRef = FALSE
  /\ capturedProcessing = [l \in LoopIds |-> FALSE]
  /\ lastTimeRef = 0
  /\ groundLevelRef = Null
  /\ inAirRef = FALSE
  /\ jumpStartTimeRef = Null
  /\ feetPositionsRef = <<>>
  /\ hooks = InitHooks
  /\ pending = <<>>
  /\ emitted = Null
  /\ feetData = <<>>
  /\ emits = <<>>
  /\ emitSeen = Null
  /\ frames = 0
  /\ sessions = 0
  /\ nticks = 0
  /\ hist = <<>>
  /\ ops = <<>>
  /\ epStart = Null
  /\ tickTime = Null
  /\ startedFrom = Null
  /\ lastPose = Null
  /\ bufferedPage = InitBufferedPage
  /\ cameraSetup = InitCameraSetup
  /\ videoRecorder = InitVideoRecorder

InitWith(pf) == variant \in Variants /\ InitState(pf)

\* the processingRef value after a render that commits the hook values s
\* (the effect of lines 130-133; variants 2 has no such ref)
ProcessingRefAfter(s) == IF variant = 1 THEN s.isProcessing ELSE processingRef

\* the tracking data and the stats the next render shows
Engine ==
  [ground |-> groundLevelRef, inAir |-> inAirRef, jumpStart |-> jumpStartTimeRef,
   positions |-> feetPositionsRef, stats |-> Settled]

\* faulty variant of SessionReset: inAirRef is left as the last session had it
SessionResetKeepsAirborne(e) ==
  [ground |-> Null, inAir |-> e.inAir, jumpStart |-> Null, positions |-> <<>>,
   stats |-> ProcessQueue(e.stats, ResetUpdates)]

\* "Reset tracking data when starting new recording" (lines 179-187 and
\* 716-724): the four refs are cleared and the four session stats set to 0
SessionReset(e) ==
  [ground |-> Null, inAir |-> FALSE, jumpStart |-> Null, positions |-> <<>>,
   stats |-> ProcessQueue(e.stats, ResetUpdates)]

\* the start/stop effect when isRecording has become true (camera and model
\* ready, no error), lines 176-190 and 715-726; it runs after the render that
\* brought the new prop, which commits the queued updates; processVideo()
\* requests the first frame of a new loop
StartRecording ==
  /\ ~isRecording
  /\ sessions < MaxSessions
  /\ isRecording' = TRUE
  /\ sessions' = sessions + 1
  /\ hooks' = Settled
  /\ processingRef' = ProcessingRefAfter(Settled)
  /\ pending' = << SetTo("isProcessing", TRUE) >> \o ResetUpdates
  /\ groundLevelRef' = SessionReset(Engine).ground
  /\ inAirRef' = SessionReset(Engine).inAir
  /\ jumpStartTimeRef' = SessionReset(Engine).jumpStart
  /\ feetPositionsRef' = SessionReset(Engine).positions
  /\ loops' = [loops EXCEPT ![sessions + 1] = Scheduled]
  /\ capturedProcessing' = [capturedProcessing EXCEPT ![sessions + 1] = Settled.isProcessing]
  /\ requestRef' = Some(sessions + 1)
  /\ nticks' = 0
  /\ hist' = <<>>
  /\ ops' = Append(ops, ResetOp)
  /\ epStart' = Null
  /\ tickTime' = Null
  /\ startedFrom' = Some([inAir |-> inAirRef, buffered |-> Len(feetPositionsRef),
                          jumpCount |-> Settled.jumpCount])
  /\ feetData' = <<>>
  /\ emits' = <<>>
  /\ UNCHANGED <<fixed, now, lastTimeRef, emitted, emitSeen, frames, lastPose>>

\* the effect's cleanup, then the effect with isRecording false
\* (lines 192-199 and 166-174), after the render that brought the new prop
StopRecording ==
  /\ isRecording
  /\ isRecording' = FALSE
  /\ hooks' = Settled
  /\ processingRef' = ProcessingRefAfter(Settled)
  /\ pending' = << SetTo("isProcessing", FALSE), SetTo("isProcessing", FALSE) >>
  /\ loops' = CancelRequested(loops)
  /\ requestRef' = Null
  /\ UNCHANGED capturedProcessing
  /\ UNCHANGED <<fixed, now, lastTimeRef, refs, emitted, feetData, frames, sessions, history, lastPose>>

\* a render of the component: the queue is applied and committed
Render ==
  /\ pending # <<>>
  /\ hooks' = Settled
  /\ pending' = <<>>
  /\ processingRef' = ProcessingRefAfter(Settled)
  /\ UNCHANGED <<fixed, isRecording, now, requestRef, loops, capturedProcessing, lastTimeRef, refs,
                 emitted, feetData,
                 frames, sessions, history, lastPose>>

\* the check detectPose opens with: processingRef.current in variant 1
\* (line 215), none in variant 2, the isProcessing its closure was created
\* with in variant 3 (line 1217)
LivenessCheckFails(l) ==
  \/ variant = 1 /\ ~processingRef
  \/ variant = 3 /\ ~capturedProcessing[l]

\* one animation frame of loop l: detectPose(time) up to the await
\* (lines 212-257 and 741-771); ctx tells whether the canvas gave a context
DetectPose(l, time, ctx) ==
  /\ loops[l].st = "scheduled"
  /\ now' = time
  /\ IF LivenessCheckFails(l)
     THEN /\ loops' = [CancelRequested(loops) EXCEPT ![l] = Ended]
          /\ requestRef' = Null
          /\ UNCHANGED <<lastTimeRef, frames, lastPose>>
     ELSE IF Throttled(variant, time, lastTimeRef)
     THEN /\ requestRef' = Some(l)
          /\ UNCHANGED <<loops, lastTimeRef, frames, lastPose>>
     ELSE /\ frames + Cardinality(InFlight) < FrameLimit(profile)
          /\ lastTimeRef' = time
          /\ IF ctx
             THEN /\ loops' = [loops EXCEPT ![l] = Awaiting(time, Epoch)]
                  /\ UNCHANGED <<requestRef, frames, lastPose>>
             ELSE /\ requestRef' = Some(l)
                  /\ frames' = frames + 1
                  /\ lastPose' = Null
                  /\ UNCHANGED loops
  /\ UNCHANGED <<fixed, isRecording, liveness, hooks, sessions, refs, pending,
                 emitted, feetData, history>>

\* faulty variant of LoopAfter: an exception ends the loop
LoopAfterStopsOnError(result) == IF result.kind = "error" THEN Ended ELSE Scheduled

\* requestRef.current = requestAnimationFrame(detectPose) follows the
\* try/catch whatever came of it (lines 270 and 782)
LoopAfter(result) == Scheduled

\* estimatePoses settles for loop l: processPose if it gave a pose, then the
\* next frame is requested (lines 257-270 and 771-782)
PoseEstimated(l, result) ==
  /\ loops[l].st = "awaiting"
  /\ Len(pending) <= MaxPending
  /\ frames' = frames + 1
  /\ IF result.kind = "pose"
     THEN /\ lastPose' = Some(result.pose)
          /\ ProcessPose(result.pose, FrameHeight, loops[l].time)
     ELSE /\ lastPose' = Null
          /\ UNCHANGED <<refs, pending, emitted, feetData, history>>
  /\ loops' = [loops EXCEPT ![l] = LoopAfter(result)]
  /\ requestRef' = Some(l)
  /\ UNCHANGED <<fixed, isRecording, now, liveness, lastTimeRef, hooks, sessions>>

Frame ==
  \E l \in LoopIds, dt \in Intervals(profile), ctx \in ContextsOf(profile) :
    DetectPose(l, now + dt, ctx)

Estimate ==
  \E l \in LoopIds, result \in ResultsOf(profile, frames) : PoseEstimated(l, result)

\* the parent toggles isRecording; only the "overlap" streams toggle it while
\* a pose estimation is pending, and the "chart" streams toggle it on every
\* ChartSessionFrames-th frame only
ToggleAllowed ==
  CASE profile = "overlap" -> TRUE
    [] profile = "chart" -> InFlight = {} /\ frames % ChartSessionFrames = 0
    [] OTHER -> InFlight = {}

Toggle ==
  /\ ToggleAllowed
  /\ StartRecording \/ StopRecording

Next == Toggle \/ Render \/ Frame \/ Estimate

Init == InitWith("free")
Spec == Init /\ [][Next]_vars

InitSteady == InitWith("steady")
SpecSteady == InitSteady /\ [][Next]_vars

InitProbe == InitWith("probe")
SpecProbe == InitProbe /\ [][Next]_vars

InitLong == \E k \in 1..Len(LongPatterns) : InitWith(<<"long", k>>)
SpecLong == InitLong /\ [][Next]_vars

InitOverlap == InitWith("overlap")
SpecOverlap == InitOverlap /\ [][Next]_vars

InitCadence == InitWith("cadence")
SpecCadence == InitCadence /\ [][Next]_vars

InitLowConf == InitWith("lowconf")
SpecLowConf == InitLowConf /\ [][Next]_vars

InitFaults == InitWith("faults")
SpecFaults == InitFaults /\ [][Next]_vars

InitChart == InitWith("chart")
SpecChart == InitChart /\ [][Next]_vars

\* all three variants, with frames, pose estimations and renders that keep
\* coming: the browser runs a requested animation frame, a pending promise
\* settles, React renders a queued update
InitLive == variant \in AllVariants /\ InitState("live")
SpecLive ==
  /\ InitLive
  /\ [][Next]_vars
  /\ WF_vars(Frame)
  /\ WF_vars(Estimate)
  /\ WF_vars(Render)

(***************************************************************************)
(* Properties                                                              *)
(***************************************************************************)
\* steps: a tick is a frame whose sample reached the buffer
TickStep == nticks' = nticks + 1
FrameStep == now' # now \/ frames' # frames

\* the latest accepted frame was a tick (both ankles present)
LastFrameWasTick == lastPose # Null /\ Val(lastPose).la /\ Val(lastPose).ra

\* the sample before the latest one was above the threshold
PreviousSampleAirborne ==
  /\ Len(hist) >= 2
  /\ groundLevelRef # Null
  /\ hist[Len(hist) - 1] > Val(groundLevelRef) + JumpThreshold

RECURSIVE JumpsSinceReset(_)
JumpsSinceReset(o) ==
  IF o = <<>> \/ o[Len(o)].kind = "reset" THEN <<>>
  ELSE Append(JumpsSinceReset(SubSeq(o, 1, Len(o) - 1)), o[Len(o)])

\* the jumps accepted in the current session, in order
SessionJumps == JumpsSinceReset(ops)

\* C1: an airborne run (consecutive ticks above ground + 20) that ends at
\* most 0.1 s after its first tick produces no jump: the tick that ends it
\* leaves every stats field and the list of accepted jumps unchanged.
C1_DebounceFloor ==
  [][ (/\ TickStep
       /\ epStart # Null
       /\ epStart' = Null
       /\ Val(tickTime') - Val(epStart) <= MinFlightTime)
      => (Settled' = Settled /\ ops' = ops) ]_vars

\* a landing exactly 0.1 s after the rise, nothing counted
C1_Witness ==
  /\ LastFrameWasTick
  /\ PreviousSampleAirborne
  /\ ~inAirRef
  /\ jumpStartTimeRef # Null
  /\ Val(tickTime) - Val(jumpStartTimeRef) = MinFlightTime
  /\ SessionJumps = <<>>
  /\ Settled.jumpCount = 0

\* C2: an airborne run that ends more than 0.1 s after its first tick
\* produces exactly one jump, at the tick that ends it: jumpCount grows by
\* one and flightTime becomes the landing timestamp minus the rise
\* timestamp; no other tick changes jumpCount.
C2_OneJumpPerEpisode ==
  [][ TickStep =>
        IF epStart # Null /\ epStart' = Null /\ Val(tickTime') - Val(epStart) > MinFlightTime
        THEN /\ Settled'.jumpCount = Settled.jumpCount + 1
             /\ Settled'.flightTime = Val(tickTime') - Val(epStart)
             /\ Len(ops') = Len(ops) + 1
        ELSE /\ Settled'.jumpCount = Settled.jumpCount
             /\ ops' = ops ]_vars

\* a landing more than 0.1 s after the rise, counted once
C2_Witness ==
  /\ LastFrameWasTick
  /\ PreviousSampleAirborne
  /\ ~inAirRef
  /\ jumpStartTimeRef # Null
  /\ Val(tickTime) - Val(jumpStartTimeRef) > MinFlightTime
  /\ Len(SessionJumps) = 1
  /\ Settled.jumpCount = 1
  /\ Settled.flightTime = Val(tickTime) - Val(jumpStartTimeRef)

\* C3: within a session the ground level never increases: once set, its
\* value after any step is at most its value before.
C3_GroundMonotone ==
  [][ (groundLevelRef # Null /\ groundLevelRef' # Null)
      => Val(groundLevelRef') <= Val(groundLevelRef) ]_vars

\* the ground has moved down from the first sample, past a zero-height sample
C3_Witness ==
  /\ groundLevelRef # Null
  /\ Len(hist) >= 3
  /\ Val(groundLevelRef) < hist[1]
  /\ \E i \in 1..Len(hist) : hist[i] = 0

\* C4: the ground update of a tick with combined height h: an absent ground
\* level becomes h; a ground level g becomes h exactly when g - 100 < h < g
\* and otherwise stays g.
C4_GroundRule ==
  [][ TickStep =>
        LET h == hist'[Len(hist')]
        IN groundLevelRef' =
             IF groundLevelRef = Null THEN Some(h)
             ELSE IF Val(groundLevelRef) - 100 < h /\ h < Val(groundLevelRef)
                  THEN Some(h)
                  ELSE groundLevelRef ]_vars

\* a sample exactly 100 below the ground level has left it alone
C4_Witness ==
  /\ LastFrameWasTick
  /\ Len(hist) >= 2
  /\ groundLevelRef # Null
  /\ hist[Len(hist)] = Val(groundLevelRef) - 100

\* C5: after every tick inAirRef is true exactly when the tick's combined
\* height is above the (updated) ground level + 20, and a frame that is not
\* a tick (throttled, or an ankle missing) leaves inAirRef alone.
C5_AirborneIff ==
  [][ /\ TickStep =>
           (inAirRef' <=> hist'[Len(hist')] > Val(groundLevelRef') + 20)
      /\ (FrameStep /\ ~TickStep) => (inAirRef' = inAirRef) ]_vars

\* a sample exactly 20 above the ground level, not airborne
C5_Witness ==
  /\ LastFrameWasTick
  /\ Len(hist) >= 2
  /\ groundLevelRef # Null
  /\ hist[Len(hist)] = Val(groundLevelRef) + 20
  /\ ~inAirRef

(***************************************************************************)
(* The stats as one atomic update per jump would keep them (the reference  *)
(* the aggregator claims are stated against)                               *)
(***************************************************************************)
StatsOf(s) ==
  [jumpCount |-> s.jumpCount, maxHeight |-> s.maxHeight, flightTime |-> s.flightTime,
   lastJumpHeight |-> s.lastJumpHeight, bestFlightTime |-> s.bestFlightTime,
   bestFlightJump |-> s.bestFlightJump, bestMaxHeight |-> s.bestMaxHeight,
   bestMaxJump |-> s.bestMaxJump]

AtomicJump(s, e) ==
  LET n == s.jumpCount + 1
      base == [s EXCEPT !.jumpCount = n,
                        !.lastJumpHeight = e.height,
                        !.flightTime = e.flightTime,
                        !.maxHeight = Max2(s.maxHeight, e.height)]
      withFlight == IF e.flightTime > s.bestFlightTime
                    THEN [base EXCEPT !.bestFlightTime = e.flightTime, !.bestFlightJump = n]
                    ELSE base
  IN IF variant = 1 THEN base
     ELSE IF e.height > s.bestMaxHeight
          THEN [withFlight EXCEPT !.bestMaxHeight = e.height, !.bestMaxJump = n]
          ELSE withFlight

AtomicReset(s) ==
  [s EXCEPT !.jumpCount = 0, !.maxHeight = 0, !.flightTime = 0, !.lastJumpHeight = 0]

RECURSIVE AtomicStats(_)
AtomicStats(o) ==
  IF o = <<>> THEN StatsOf(InitHooks)
  ELSE LET before == AtomicStats(SubSeq(o, 1, Len(o) - 1))
           last == o[Len(o)]
       IN IF last.kind = "reset" THEN AtomicReset(before) ELSE AtomicJump(before, last)

\* the number of jumps among the first i records of o that follow its last reset
RECURSIVE IndexInSession(_, _)
IndexInSession(o, i) ==
  IF i = 0 \/ o[i].kind = "reset" THEN 0 ELSE 1 + IndexInSession(o, i - 1)

JumpCountOf(o) == Cardinality({ i \in 1..Len(o) : o[i].kind = "jump" })

\* C6: one accepted jump e on stats s gives jumpCount = s.jumpCount + 1,
\* lastJumpHeight = e's peak, flightTime = e's flight time, maxHeight =
\* max(s.maxHeight, peak); each best value and its jump index are replaced by
\* (e's value, the new jumpCount) exactly when e's value is strictly greater
\* than the stored best, and are kept otherwise (variant 2).
C6_AggregatorStep ==
  [][ (Len(ops') = Len(ops) + 1 /\ ops'[Len(ops')].kind = "jump") =>
        LET e == ops'[Len(ops')]
            s == Settled
            t == Settled'
        IN /\ t.jumpCount = s.jumpCount + 1
           /\ t.lastJumpHeight = e.height
           /\ t.flightTime = e.flightTime
           /\ t.maxHeight = Max2(s.maxHeight, e.height)
           /\ variant = 2 =>
                /\ IF e.flightTime > s.bestFlightTime
                   THEN t.bestFlightTime = e.flightTime /\ t.bestFlightJump = s.jumpCount + 1
                   ELSE t.bestFlightTime = s.bestFlightTime /\ t.bestFlightJump = s.bestFlightJump
                /\ IF e.height > s.bestMaxHeight
                   THEN t.bestMaxHeight = e.height /\ t.bestMaxJump = s.jumpCount + 1
                   ELSE t.bestMaxHeight = s.bestMaxHeight /\ t.bestMaxJump = s.bestMaxJump ]_vars

\* two jumps of one height and one flight time: the first keeps both records
C6_Witness ==
  /\ variant = 2
  /\ Len(SessionJumps) = 2
  /\ SessionJumps[1] = SessionJumps[2]
  /\ Settled.jumpCount = 2
  /\ Settled.bestMaxJump = 1
  /\ Settled.bestFlightJump = 1

\* C7: the stats a render shows are never a mix: the committed values are
\* those of one atomic update per jump (and per reset) applied to some
\* prefix of the jumps and resets so far, and a stored best-height or
\* best-flight index is the session index of a jump that had that value.
C7_AtomicStats ==
  /\ \E k \in 0..Len(ops) : StatsOf(hooks) = AtomicStats(SubSeq(ops, 1, k))
  /\ hooks.bestMaxJump > 0 =>
       \E i \in 1..Len(ops) : /\ ops[i].kind = "jump"
                              /\ ops[i].height = hooks.bestMaxHeight
                              /\ IndexInSession(ops, i) = hooks.bestMaxJump
  /\ hooks.bestFlightJump > 0 =>
       \E i \in 1..Len(ops) : /\ ops[i].kind = "jump"
                              /\ ops[i].flightTime = hooks.bestFlightTime
                              /\ IndexInSession(ops, i) = hooks.bestFlightJump

\* a render between two jumps: the first is shown, the second is queued
\* and takes both records
C7_Witness ==
  /\ variant = 2
  /\ hooks.jumpCount = 1
  /\ hooks.bestMaxJump = 1
  /\ pending # <<>>
  /\ Settled.jumpCount = 2
  /\ Settled.bestMaxJump = 2
  /\ Settled.bestFlightJump = 2

\* C8: in a session that started with all stats at 0, after any jumps
\* jumpCount is their number, maxHeight (and, in variant 2, bestMaxHeight)
\* is the largest peak, bestMaxJump is the index of the first jump with
\* that peak, and bestFlightTime and bestFlightJump are the same for the
\* flight time.
C8_BestOfSession ==
  LET J == SessionJumps
      n == Len(J)
      maxH == CHOOSE h \in { J[i].height : i \in 1..n } :
                \A i \in 1..n : J[i].height <= h
      maxF == CHOOSE f \in { J[i].flightTime : i \in 1..n } :
                \A i \in 1..n : J[i].flightTime <= f
      firstH == CHOOSE i \in 1..n :
                  J[i].height = maxH /\ \A j \in 1..(i - 1) : J[j].height < maxH
      firstF == CHOOSE i \in 1..n :
                  J[i].flightTime = maxF /\ \A j \in 1..(i - 1) : J[j].flightTime < maxF
  IN (n > 0 /\ JumpCountOf(ops) = n) =>
       /\ Settled.jumpCount = n
       /\ Settled.maxHeight = maxH
       /\ variant = 2 =>
            /\ Settled.bestMaxHeight = maxH
            /\ Settled.bestMaxJump = firstH
            /\ Settled.bestFlightTime = maxF
            /\ Settled.bestFlightJump = firstF

\* peaks 30 then 50: bestMaxHeight 50 at jump 2, maxHeight 50, jumpCount 2
C8_Witness ==
  /\ variant = 2
  /\ JumpCountOf(ops) = 2
  /\ Len(SessionJumps) = 2
  /\ SessionJumps[1].height = 30
  /\ SessionJumps[2].height = 50
  /\ Settled.bestMaxHeight = 50
  /\ Settled.bestMaxJump = 2
  /\ Settled.maxHeight = 50
  /\ Settled.jumpCount = 2

\* C9: on every frame with both ankle keypoints present and
\* leftConfidence + rightConfidence < 0.6, whatever the two confidences are
\* from 0 upward, both foot heights (and so the combined height) are 0 for
\* that tick, whatever the ankle y-values.
C9_LowConfidenceZero ==
  (LastFrameWasTick /\ Val(lastPose).ls + Val(lastPose).rs < LowConfidenceSum)
    => emitted = Some(<<0, 0>>)

\* Scenario D: confidences 0.2 and 0.2, ankles at height 130, heights 0
C9_Witness ==
  /\ LastFrameWasTick
  /\ Val(lastPose).ls = 20
  /\ Val(lastPose).rs = 20
  /\ FrameHeight - Val(lastPose).ly = 130
  /\ emitted = Some(<<0, 0>>)

\* C10: the sliding buffer never holds more than 30 values, and after n
\* ticks of a session it is the last min(n, 30) combined heights of that
\* session, in arrival order.
C10_SlidingBuffer ==
  LET len == Len(feetPositionsRef)
  IN /\ len <= BufferCapacity
     /\ Len(hist) = nticks
     /\ len = Min2(nticks, BufferCapacity)
     /\ feetPositionsRef = SubSeq(hist, nticks - len + 1, nticks)

\* two samples past the capacity: the two oldest are gone, the rest kept
C10_Witness ==
  /\ nticks = BufferCapacity + 2
  /\ Len(feetPositionsRef) = BufferCapacity
  /\ feetPositionsRef[1] = hist[3]
  /\ hist[3] # hist[1]
  /\ feetPositionsRef[BufferCapacity] = hist[nticks]

\* steps: the start/stop effect with isRecording turned true
StartStep == isRecording' /\ ~isRecording

\* the tracking data and the stats, without the isProcessing flag
EngineView(e) == [e EXCEPT !.stats = StatsOf(e.stats)]

Fresh(e) ==
  /\ e.ground = Null
  /\ e.inAir = FALSE
  /\ e.jumpStart = Null
  /\ e.positions = <<>>
  /\ e.stats.jumpCount = 0
  /\ e.stats.lastJumpHeight = 0
  /\ e.stats.flightTime = 0
  /\ e.stats.maxHeight = 0

\* C11: a session start clears the ground level, the airborne flag, the
\* jump start timestamp and the buffer and sets jumpCount, lastJumpHeight,
\* flightTime and maxHeight to 0, whatever the previous session left, and
\* the first tick of the new session finds them so.
C11_StartResets ==
  [][ /\ StartStep => Fresh(Engine')
      /\ (isRecording /\ nticks = 0 /\ TickStep) => Fresh(Engine) ]_vars

\* a session that ended airborne after a jump, restarted, one tick in: the
\* tick found no ground level and an empty buffer
C11_Witness ==
  /\ isRecording
  /\ startedFrom # Null
  /\ Val(startedFrom).inAir
  /\ Val(startedFrom).jumpCount > 0
  /\ Val(startedFrom).buffered > 0
  /\ nticks = 1
  /\ feetPositionsRef = hist
  /\ groundLevelRef = Some(hist[1])
  /\ Settled.jumpCount = 0
  /\ Settled.maxHeight = 0

\* C12: the session reset applied twice gives what it gives applied once,
\* from every reachable state; a session start applies it once.
C12_ResetIdempotent ==
  [][ /\ EngineView(SessionReset(SessionReset(Engine))) = EngineView(SessionReset(Engine))
      /\ StartStep =>
           /\ EngineView(Engine') = EngineView(SessionReset(Engine))
           /\ EngineView(SessionReset(Engine')) = EngineView(Engine') ]_vars

\* just after a start from an airborne state with a jump counted: a
\* further reset would change nothing
C12_Witness ==
  /\ isRecording
  /\ startedFrom # Null
  /\ Val(startedFrom).inAir
  /\ Val(startedFrom).jumpCount > 0
  /\ nticks = 0
  /\ EngineView(SessionReset(Engine)) = EngineView(Engine)

\* C13: any two frames accepted one after the other are at least the
\* minimum interval apart (60 ms in variant 1, 16 ms in variant 2), whatever
\* the arrival times and across session stops and restarts.
C13_MinimumInterval ==
  [][ lastTimeRef' # lastTimeRef =>
        lastTimeRef' - lastTimeRef >= (IF variant = 1 THEN 60 ELSE 16) ]_vars

\* a frame accepted exactly the minimum interval after the previous tick
C13_Witness ==
  /\ tickTime # Null
  /\ \E l \in InFlight :
       loops[l].time - Val(tickTime) = (IF variant = 1 THEN 60 ELSE 16)

\* C14: a frame that arrives less than the minimum interval after the last
\* accepted one changes nothing: lastTimeRef, the buffer, the ground level,
\* the airborne flag, the jump start, the stats and the emitted heights
\* stay, no pose estimation is started, and the next frame is requested.
C14_ThrottledFrameDropped ==
  [][ (/\ now' # now
       /\ now' - lastTimeRef < (IF variant = 1 THEN 60 ELSE 16)
       /\ variant = 1 => processingRef)
      => /\ UNCHANGED <<lastTimeRef, refs, hooks, pending, emitted, nticks, hist, ops, frames>>
         /\ InFlight' = InFlight
         /\ requestRef' # Null
         /\ loops'[Val(requestRef')].st = "scheduled" ]_vars

\* a frame has come 10 ms after an accepted one and the loop waits for the next
C14_Witness ==
  /\ isRecording
  /\ variant = 1 => processingRef
  /\ nticks >= 1
  /\ now = lastTimeRef + 10
  /\ requestRef # Null
  /\ loops[Val(requestRef)].st = "scheduled"
  /\ InFlight = {}

\* C15: a frame in which the left or the right ankle keypoint, or both, is
\* absent is skipped: the buffer, the ground level, the airborne flag, the
\* jump start, the committed and queued stats and the emitted heights are
\* unchanged.
C15_MissingAnkleSkipped ==
  [][ (/\ frames' = frames + 1
       /\ ~Val(lastPose').la \/ ~Val(lastPose').ra)
      => UNCHANGED <<refs, hooks, pending, emitted, nticks, hist, ops>> ]_vars

\* a frame without its right ankle, met while airborne
C15_Witness ==
  /\ lastPose # Null
  /\ Val(lastPose).la
  /\ ~Val(lastPose).ra
  /\ nticks >= 1
  /\ inAirRef
  /\ InFlight = {}

\* steps: a tick whose two confidences are non-zero and sum below 0.6
LowConfidenceTick ==
  /\ TickStep
  /\ Val(lastPose').ls > 0
  /\ Val(lastPose').rs > 0
  /\ Val(lastPose').ls + Val(lastPose').rs < 60

C17_PeakLookback ==
  [][ (Len(ops') = Len(ops) + 1 /\ ops'[Len(ops')].kind = "jump") =>
        LET n == Len(hist')
            window == { hist'[i] : i \in (IF n > 15 THEN n - 14 ELSE 1)..n }
            peak == CHOOSE h \in window : \A g \in window : g <= h
        IN ops'[Len(ops')].height = peak - Val(groundLevelRef') ]_vars

\* a run of 17 airborne samples whose highest, 150, came first: at landing
\* it is outside the window and the peak is 130 - 100
C17_Witness ==
  /\ nticks >= 18
  /\ hist[nticks] = 100
  /\ hist[nticks - 16] = 150
  /\ \A i \in (nticks - 15)..(nticks - 1) : hist[i] = 130
  /\ SessionJumps # <<>>
  /\ SessionJumps[Len(SessionJumps)].height = 30
  /\ groundLevelRef = Some(100)

\* C18: an airborne run of a single sample (the tick before it and the tick
\* after it grounded) is discarded whatever the spacing of the accepted
\* frames: the tick that ends it accepts no jump and changes no stat.
C18_SingleSampleDiscarded ==
  [][ (/\ TickStep
       /\ Len(hist) >= 2
       /\ epStart # Null
       /\ epStart = tickTime
       /\ epStart' = Null)
      => (ops' = ops /\ Settled' = Settled) ]_vars

\* C19: ticks are serialized: whatever the order of session starts and
\* stops, animation frames and pose-estimation completions, at most one
\* detection loop is live, at most one tick is in flight, and the samples
\* reach processPose in strictly increasing timestamp order.
C19_TicksSerialized ==
  [][ /\ Cardinality(LiveLoops') <= 1
      /\ Cardinality(InFlight') <= 1
      /\ (TickStep /\ tickTime # Null) => Val(tickTime') > Val(tickTime) ]_vars

\* C20: a tick whose pose estimation is pending when the session is stopped
\* or restarted commits nothing afterwards: when its estimation resolves,
\* the buffer, the ground level, the airborne flag, the jump start, the
\* stats and the emitted heights are left as they are.
C20_PendingTickAbandoned ==
  [][ \A l \in LoopIds :
        (/\ loops[l].st = "awaiting"
         /\ loops[l].epoch # Epoch
         /\ loops'[l].st # "awaiting")
        => UNCHANGED <<refs, hooks, pending, emitted, nticks, hist, ops>> ]_vars

\* steps: the start/stop effect with isRecording turned false
StopStep == isRecording /\ ~isRecording'

\* C21: stopping the session is a reset: right after the stop the ground
\* level is absent, the airborne flag is off, the buffer is empty and
\* jumpCount, lastJumpHeight, flightTime and maxHeight are 0.
C21_StopResets ==
  [][ StopStep => Fresh(Engine') ]_vars

BestsOf(s) ==
  [bestFlightTime |-> s.bestFlightTime, bestFlightJump |-> s.bestFlightJump,
   bestMaxHeight |-> s.bestMaxHeight, bestMaxJump |-> s.bestMaxJump]

C25_JumpStartOnRisingEdge ==
  [][ /\ inAirRef' => (jumpStartTimeRef' # Null /\ jumpStartTimeRef' = epStart')
      /\ (jumpStartTimeRef' # jumpStartTimeRef /\ ~StartStep) =>
           (TickStep /\ ~inAirRef /\ inAirRef' /\ jumpStartTimeRef' = tickTime')
      /\ (TickStep /\ inAirRef /\ ~inAirRef' /\ jumpStartTimeRef # Null) =>
           JumpFlightTime(Val(tickTime'), Val(jumpStartTimeRef)) >= 0 ]_vars

\* C26: the first tick of a session sets the ground level to its own
\* combined height and is not airborne; a session starts grounded; no jump
\* is recorded before the third tick of a session.
C26_FirstTickGrounded ==
  [][ /\ StartStep => ~inAirRef'
      /\ (TickStep /\ nticks = 0) =>
           /\ ~inAirRef
           /\ groundLevelRef' = Some(hist'[1])
           /\ ~inAirRef'
           /\ jumpStartTimeRef' = Null
      /\ (TickStep /\ ops' # ops) => nticks' >= 3 ]_vars

\* a jump recorded by the third tick of a session: floor, airborne, landed
C26_Witness ==
  /\ nticks = 3
  /\ Len(hist) = 3
  /\ groundLevelRef = Some(hist[1])
  /\ hist[2] > hist[1] + JumpThreshold
  /\ hist[3] <= hist[1] + JumpThreshold
  /\ ~inAirRef
  /\ Len(SessionJumps) = 1

\* C27: after a stop with no restart the detection loop ends: once the
\* tick in flight has returned and the stop's state updates are committed,
\* no further frame is accepted, whether the stop came while a frame
\* request was pending or while a pose estimation was awaited.
C27_LoopEndsAfterStop ==
  [][ (~isRecording /\ ~isRecording' /\ InFlight = {} /\ pending = <<>>) =>
        (InFlight' = {} /\ frames' = frames /\ nticks' = nticks) ]_vars

\* C28: whenever recording has started and frames keep arriving, a sample
\* is processed (or the recording is stopped first), whichever of the first
\* frame callback and the commit of isProcessing = true comes first.
C28_StartLeadsToTick ==
  (isRecording /\ nticks = 0 /\ frames < FrameLimit(profile))
    ~> (nticks > 0 \/ ~isRecording)

\* C29: a failed pose estimation is not fatal: when an estimation throws or
\* returns no pose, the tracking data, the stats and the chart are left as
\* they were, nothing is given to the chart, and the next frame is
\* requested; a frame callback that passes the liveness check but is
\* throttled or finds no canvas context also requests the next frame and
\* changes none of these.
C29_FaultsNotFatal ==
  [][ /\ \A l \in LoopIds :
           (loops[l].st = "awaiting" /\ loops'[l].st # "awaiting" /\ lastPose' = Null) =>
             /\ loops'[l].st = "scheduled"
             /\ requestRef' = Some(l)
             /\ Engine' = Engine
             /\ emits' = emits
             /\ emitted' = emitted
             /\ feetData' = feetData
             /\ nticks' = nticks
      /\ (now' # now /\ ~(variant = 1 /\ ~processingRef)) =>
           /\ LiveLoops' = LiveLoops
           /\ InFlight' = InFlight =>
                /\ requestRef' # Null
                /\ loops'[Val(requestRef')].st = "scheduled"
                /\ Engine' = Engine
                /\ emits' = emits
                /\ feetData' = feetData
                /\ nticks' = nticks ]_vars

\* after a tick, a frame whose estimation gave no sample, then a throttled
\* frame: the loop is still scheduled and the tick's data are untouched
C29_Witness ==
  /\ isRecording
  /\ nticks = 1
  /\ frames = 2
  /\ lastPose = Null
  /\ now > lastTimeRef
  /\ now - lastTimeRef < 16
  /\ requestRef # Null
  /\ loops[Val(requestRef)].st = "scheduled"
  /\ feetPositionsRef = hist
  /\ Len(emits) = 1

\* the chart holds the latest min(n, 100) of the n pairs given to it
ChartIsLatest(data, given) ==
  /\ Len(data) <= 100
  /\ Len(data) = (IF Len(given) < 100 THEN Len(given) ELSE 100)
  /\ \A i \in 1..Len(data) :
       <<data[i].leftFoot, data[i].rightFoot>> = given[Len(given) - Len(data) + i]

\* C30: the page's feetData never holds more than 100 points; it holds the
\* most recent min(n, 100) of the n height updates received since the last
\* recording start, in order, and is emptied at every recording start.
C30_ChartWindow ==
  [][ /\ ChartIsLatest(feetData', emits')
      /\ StartStep => feetData' = <<>> ]_vars

\* 102 updates in one session: the chart holds the latest 100, the first
\* two are gone
C30_Witness ==
  /\ Len(emits) = 102
  /\ Len(feetData) = 100
  /\ <<feetData[1].leftFoot, feetData[1].rightFoot>> = emits[3]
  /\ emits[3] # emits[1]
  /\ <<feetData[100].leftFoot, feetData[100].rightFoot>> = emits[102]

StatsOrdered(s) ==
  /\ 0 <= s.lastJumpHeight
  /\ s.lastJumpHeight <= s.maxHeight
  /\ s.maxHeight <= s.bestMaxHeight
  /\ 0 <= s.flightTime
  /\ s.flightTime <= s.bestFlightTime

\* from stats s to stats t no counter and no record goes down
StatsNotLower(s, t) ==
  /\ s.jumpCount <= t.jumpCount
  /\ s.maxHeight <= t.maxHeight
  /\ s.bestMaxHeight <= t.bestMaxHeight
  /\ s.bestFlightTime <= t.bestFlightTime

\* C35: in the variant with best-of stats, in every state the committed
\* stats and those the next render commits satisfy
\* 0 <= lastJumpHeight <= maxHeight <= bestMaxHeight and
\* 0 <= flightTime <= bestFlightTime, and apart from session starts
\* jumpCount, maxHeight, bestMaxHeight and bestFlightTime never go down.
C35_StatsOrdered ==
  [][ variant = 2 =>
        /\ StatsOrdered(hooks')
        /\ StatsOrdered(Settled')
        /\ ~StartStep => StatsNotLower(Settled, Settled') ]_vars

\* a second session whose only jump is lower than the best of the first
C35_Witness ==
  /\ variant = 2
  /\ sessions = 2
  /\ pending = <<>>
  /\ hooks.jumpCount = 1
  /\ hooks.lastJumpHeight = 30
  /\ hooks.maxHeight = 30
  /\ hooks.bestMaxHeight = 50
  /\ hooks.flightTime > 0
  /\ hooks.flightTime <= hooks.bestFlightTime

\* the jump indices of the best-of records of stats s are within 0..jumpCount
BestIndicesInRange(s) ==
  /\ 0 <= s.bestFlightJump
  /\ s.bestFlightJump <= s.jumpCount
  /\ 0 <= s.bestMaxJump
  /\ s.bestMaxJump <= s.jumpCount

\* C36: in every state, also after a session reset, the jump indices kept
\* with the best-of records are within the current numbering:
\* 0 <= bestFlightJump <= jumpCount and 0 <= bestMaxJump <= jumpCount, in
\* the committed stats and in those the next render commits.
C36_BestIndexCounted ==
  variant = 2 => (BestIndicesInRange(hooks) /\ BestIndicesInRange(Settled))

\* C37: the index stored as timestamp in feetData is strictly increasing
\* along the list, for every number of updates in a recording.
C37_ChartIndexIncreasing ==
  \A i, j \in 1..Len(feetData) :
    i < j => feetData[i].timestamp < feetData[j].timestamp

(***************************************************************************)
(* The buffering page on its own: the tracker stays as mounted             *)
(***************************************************************************)
InitPage == variant = 1 /\ InitState("free")
SpecBufferedPage == InitPage /\ [][NextBufferedPage]_vars

\* C31: in the page that buffers chart data no sample delivered during a
\* recording is lost or duplicated: feetData holds delivered samples only,
\* each once and in arrival order, and once the recording is stopped and
\* the page has rendered, feetData holds every sample delivered during it.
C31_BufferedSamplesKept ==
  LET data == bufferedPage.feetData
  IN /\ \A i, j \in 1..Len(data) : i < j => data[i] < data[j]
     /\ (~bufferedPage.isRecording /\ bufferedPage.updates = <<>>) =>
          data = bufferedPage.delivered

(***************************************************************************)
(* The camera acquisition on its own; every pending promise and media      *)
(* event is eventually delivered                                           *)
(***************************************************************************)
SpecCameraSetup ==
  /\ InitPage
  /\ [][NextCameraSetup]_vars
  /\ WF_vars(CameraAcquired)
  /\ WF_vars(MetadataLoaded)
  /\ WF_vars(PlayDone)

\* C32: whenever getBestCameraStream obtains no stream, setupCamera
\* eventually leaves the loading state and reports the failure:
\* cameraLoading becomes false and error is set.
C32_CameraFailureReported ==
  cameraSetup.failed ~> (~cameraSetup.cameraLoading /\ cameraSetup.error # Null)

(***************************************************************************)
(* The video recorder on its own                                           *)
(***************************************************************************)
SpecVideoRecorder == InitPage /\ [][NextVideoRecorder]_vars

\* C33: when a recording for which at least one non-empty chunk arrived is
\* stopped, its onstop produces a playback URL built from exactly the
\* chunks of that recording, for every sequence of starts and stops.
C33_UrlFromOwnChunks ==
  [][ \A r \in Recordings :
        (/\ videoRecorder.recorders[r].state = "flushed"
         /\ videoRecorder'.recorders[r].state = "stopped"
         /\ videoRecorder.recorders[r].arrived # <<>>)
        => videoRecorder'.videoUrl = Some(videoRecorder.recorders[r].arrived) ]_vars

====
